---- MODULE Spec2Model ----
(***************************************************************************)
(* The input engine of thingylaunch: Thingylaunch::eventLoop and           *)
(* Thingylaunch::keypress (src/thingylaunch.cpp) acting on the command     *)
(* buffer m_command, the cursor m_cursorPos, the completion engine m_comp, *)
(* the history m_hist and the bookmark table m_book.                       *)
(*                                                                         *)
(* A string is a sequence of 8-bit code units (0..255); a key symbol is    *)
(* the integer keysym delivered by xcb_key_symbols_get_keysym.  Indices in *)
(* comments are the 0-based indices of the C++ code; sequences are 1-based.*)
(***************************************************************************)
EXTENDS Integers, Sequences, FiniteSets, TLC

(* ------------------------------ bounds -------------------------------- *)

\* Printable keys are accepted only while the buffer is shorter than this.
MaxLen == 3

\* A run of consecutive Tab presses that started with a scan is followed for
\* at most this many presses.
MaxTabs == 4

(* ----------------------- key symbols and masks ------------------------ *)

XK_space     == 32
XK_k         == 107
XK_w         == 119
XK_BackSpace == 65288
XK_Tab       == 65289
XK_Return    == 65293
XK_Escape    == 65307
XK_Home      == 65360
XK_Left      == 65361
XK_Up        == 65362
XK_Right     == 65363
XK_Down      == 65364
XK_End       == 65367
XK_KP_Tab    == 65417
XK_KP_Home   == 65429
XK_KP_Left   == 65430
XK_KP_Up     == 65431
XK_KP_Right  == 65432
XK_KP_Down   == 65433
XK_KP_End    == 65436

\* Key symbols the code does not name, used as inputs: the letters 'a' and
\* 'b', the function key F1 and the keypad digit 1 (0xffb1).
InputSyms == [a |-> 97, b |-> 98, F1 |-> 65470, KP_1 |-> 65457]

ShiftMask   == "Shift"
ControlMask == "Control"
Mod1Mask    == "Mod1"

\* The key events the environment delivers: [sym, state] with state the set
\* of modifier masks held.
Events ==
    {[sym |-> k, state |-> {}] :
        k \in {XK_space, InputSyms.a, XK_k, XK_BackSpace, XK_Tab, XK_Return,
               XK_Escape, XK_Home, XK_Left, XK_Up, XK_Right, XK_Down,
               XK_End, XK_KP_Left, InputSyms.F1, InputSyms.KP_1}}
    \cup {[sym |-> XK_k, state |-> {ControlMask}],
          [sym |-> XK_w, state |-> {ControlMask}],
          [sym |-> InputSyms.b, state |-> {Mod1Mask}],
          [sym |-> InputSyms.a, state |-> {Mod1Mask}]}

(* ------------------------- std::string helpers ------------------------ *)

Min(a, b) == IF a < b THEN a ELSE b

\* std::string::erase(pos): count defaults to npos, so everything from
\* index pos to the end is removed.
EraseFrom(str, pos) == SubSeq(str, 1, pos)

\* std::string::erase(pos, count): removes min(count, size - pos) characters
\* starting at index pos (pos <= size).
Erase(str, pos, count) ==
    SubSeq(str, 1, pos) \o SubSeq(str, pos + Min(count, Len(str) - pos) + 1, Len(str))

\* std::string::insert(pos, 1, ch); push_back(ch) is the case pos = size.
Insert(str, pos, ch) ==
    SubSeq(str, 1, pos) \o <<ch>> \o SubSeq(str, pos + 1, Len(str))

\* ToChar translating the keypad digits 0xffb0..0xffb9 to '0'..'9'.
ToChar_KeypadDigit(sym) ==
    IF sym >= 65456 /\ sym <= 65465 THEN sym - 65456 + 48 ELSE sym % 256

\* Conversion of a keysym (uint32) to the char stored in the string.
ToChar(sym) == sym % 256

\* toupper on the keysym: only 'a'..'z' change.
toupper(c) == IF c >= 97 /\ c <= 122 THEN c - 32 ELSE c

IsPrefix(p, s) == Len(p) <= Len(s) /\ SubSeq(s, 1, Len(p)) = p

(* ------------------------------ Completion ---------------------------- *)

\* The executable search path: directories in path order, names in lexical
\* order inside a directory.  "aa","ak" / "ak","k".
PathDirs ==
    << << <<97, 97>>, <<97, 107>> >>, << <<97, 107>>, <<107>> >> >>

RECURSIVE Flatten(_)
Flatten(dirs) == IF dirs = <<>> THEN <<>> ELSE Head(dirs) \o Flatten(Tail(dirs))

RECURSIVE Dedup(_, _)
Dedup(names, seen) ==
    IF names = <<>> THEN <<>>
    ELSE IF Head(names) \in seen THEN Dedup(Tail(names), seen)
    ELSE <<Head(names)>> \o Dedup(Tail(names), seen \cup {Head(names)})

\* The scan of the search path for a prefix.
ScanPath(prefix) ==
    LET Matches(name) == IsPrefix(prefix, name)
    IN  Dedup(SelectSeq(Flatten(PathDirs), Matches), {})

\* Completion::reset
CompReset == [live |-> FALSE, candidates |-> <<>>, idx |-> 0]

\* Completion::next: [comp |-> the engine afterwards, out |-> the string returned]
CompNext(comp, prefix) ==
    IF ~comp.live
    THEN LET c == ScanPath(prefix)
         IN  [comp |-> [live |-> TRUE, candidates |-> c,
                        idx |-> IF c = <<>> THEN 0 ELSE 1],
              out  |-> IF c = <<>> THEN prefix ELSE c[1]]
    ELSE IF comp.candidates = <<>>
         THEN [comp |-> comp, out |-> prefix]
         ELSE LET i == (comp.idx % Len(comp.candidates)) + 1
              IN  [comp |-> [comp EXCEPT !.idx = i], out |-> comp.candidates[i]]

(* ------------------------------- History ------------------------------ *)

\* nav is the navigation cursor: an index into entries, or Len(entries) + 1
\* for the at-end sentinel.
HistNew(entries) == [entries |-> entries, nav |-> Len(entries) + 1]

\* History::save
HistSave(h, cmd) == HistNew(Append(h.entries, cmd))

\* History::prev: [hist, out]
HistPrev(h) ==
    IF h.entries = <<>> THEN [hist |-> h, out |-> <<>>]
    ELSE LET n == IF h.nav > 1 THEN h.nav - 1 ELSE 1
         IN  [hist |-> [h EXCEPT !.nav = n], out |-> h.entries[n]]

\* History::next: [hist, out]
HistNext(h) ==
    LET n == IF h.nav <= Len(h.entries) THEN h.nav + 1 ELSE h.nav
    IN  [hist |-> [h EXCEPT !.nav = n],
         out  |-> IF n <= Len(h.entries) THEN h.entries[n] ELSE <<>>]

\* The persisted histories the session may start with.
InitHistories == { <<>>, << <<97>>, <<107, 32, 97, 107>> >> }

(* ------------------------------- Bookmark ----------------------------- *)

\* Bookmark::lookup: the command bound to a key symbol, empty when absent.
\* 'b' is bound to "ka".
BookLookup(sym) == IF sym = InputSyms.b THEN <<107, 97>> ELSE <<>>

(* ------------------------------- state -------------------------------- *)

VARIABLES
    m_command,      \* the command text
    m_cursorPos,    \* the cursor offset into m_command
    m_comp,         \* the completion engine
    m_hist,         \* the history store
    status,         \* "EDITING" | "TERMINATED" | "EXITED" | "SIGSEGV" | "SIGABRT"
    child,          \* what became of the process launch
    effects,        \* the calls made by the last event, in order
    lastKey,        \* the branch of keypress taken by the last key event
    tabCount,       \* length of the current run of Tab presses that began with a scan
    tabBase,        \* the buffer before that run
    typedRun,       \* number of key events so far if all were printable, else -1
    afterUpTyped,   \* the last key was printable and the one before was History-up
    lastEv,         \* the last key event delivered
    nSave,          \* calls of m_hist.save in this session
    nExec           \* calls of execcmd in this session

vars == <<m_command, m_cursorPos, m_comp, m_hist, status, child, effects,
          lastKey, tabCount, tabBase, typedRun, afterUpTyped, lastEv, nSave,
          nExec>>

\* The part of the object a case of the switch works on.
Cur == [command |-> m_command, cursorPos |-> m_cursorPos,
        comp |-> m_comp, hist |-> m_hist]

SaveCall(cmd)      == <<"save", cmd>>
ExecCall(cmd)      == <<"execcmd", cmd>>
RedrawCall(s)      == <<"redraw", s.command, s.cursorPos>>

(* ------------------------ the cases of keypress ----------------------- *)

\* case XK_BackSpace
CaseBackSpace(s) ==
    LET r == [s EXCEPT !.comp = CompReset]
    IN  IF r.cursorPos # 0
        THEN [r EXCEPT !.cursorPos = @ - 1,
                       !.command = EraseFrom(@, r.cursorPos - 1)]
        ELSE r

\* CaseLeft without the test against 0.
CaseLeft_NoClamp(s) == [s EXCEPT !.cursorPos = @ - 1]

\* case XK_Left, XK_KP_Left
CaseLeft(s) ==
    IF s.cursorPos # 0 THEN [s EXCEPT !.cursorPos = @ - 1] ELSE s

\* CaseRight without the test against m_command.length().
CaseRight_NoClamp(s) == [s EXCEPT !.cursorPos = @ + 1]

\* case XK_Right, XK_KP_Right
CaseRight(s) ==
    IF s.cursorPos < Len(s.command) THEN [s EXCEPT !.cursorPos = @ + 1] ELSE s

\* CaseUp that leaves m_cursorPos where it was.
CaseUp_KeepsCursor(s) ==
    LET p == HistPrev(s.hist)
    IN  [s EXCEPT !.hist = p.hist, !.command = p.out]

\* case XK_Up, XK_KP_Up
CaseUp(s) ==
    LET p == HistPrev(s.hist)
    IN  [s EXCEPT !.hist = p.hist, !.command = p.out, !.cursorPos = Len(p.out)]

\* case XK_Down, XK_KP_Down
CaseDown(s) ==
    LET n == HistNext(s.hist)
    IN  [s EXCEPT !.hist = n.hist, !.command = n.out, !.cursorPos = Len(n.out)]

\* case XK_Home, XK_KP_Home
CaseHome(s) == [s EXCEPT !.cursorPos = 0]

\* case XK_End, XK_KP_End
CaseEnd(s) == [s EXCEPT !.cursorPos = Len(s.command)]

\* CaseTab that resets the engine after taking the candidate.
CaseTab_Resets(s) ==
    LET n == CompNext(s.comp, s.command)
    IN  [s EXCEPT !.comp = CompReset, !.command = n.out, !.cursorPos = Len(n.out)]

\* case XK_Tab, XK_KP_Tab
CaseTab(s) ==
    LET n == CompNext(s.comp, s.command)
    IN  [s EXCEPT !.comp = n.comp, !.command = n.out, !.cursorPos = Len(n.out)]

\* CaseCtrlK without m_cursorPos = 0.
CaseCtrlK_KeepsCursor(s) == [s EXCEPT !.comp = CompReset, !.command = <<>>]

\* case XK_k with ControlMask
CaseCtrlK(s) ==
    [s EXCEPT !.comp = CompReset, !.command = <<>>, !.cursorPos = 0]

\* The loop of case XK_w: while (i > 0) { if (m_command[--i] == ' ') break; }
RECURSIVE WordScan(_, _)
WordScan(cmd, i) ==
    IF i > 0
    THEN IF cmd[i] = 32 THEN i - 1 ELSE WordScan(cmd, i - 1)
    ELSE i

\* CaseCtrlW without the "do not remove the heading space" step.
CaseCtrlW_DropsSpace(s) ==
    LET i == WordScan(s.command, s.cursorPos - 1)
    IN  [s EXCEPT !.command = Erase(@, i, s.cursorPos), !.cursorPos = i]

\* case XK_w with ControlMask, for m_cursorPos >= 1
CaseCtrlW(s) ==
    LET j == WordScan(s.command, s.cursorPos - 1)
        i == IF j # 0 THEN j + 1 ELSE j
    IN  [s EXCEPT !.command = Erase(@, i, s.cursorPos), !.cursorPos = i]

\* The range test of the printable branch.
IsPrintable(c) == (c >= 32 /\ c <= 5054) \/ (c >= 65456 /\ c <= 65465)

\* PrintableBranch without ++m_cursorPos.
PrintableBranch_NoAdvance(s, c) ==
    [s EXCEPT !.command = Insert(@, s.cursorPos, ToChar(c)),
              !.comp = CompReset]

\* The printable branch after the switch.
PrintableBranch(s, c) ==
    [s EXCEPT !.command = Insert(@, s.cursorPos, ToChar(c)),
              !.cursorPos = @ + 1,
              !.comp = CompReset]

\* CaseReturn that does not save an empty command.
CaseReturn_SkipsEmpty(s) ==
    IF s.command = <<>> THEN s ELSE [s EXCEPT !.hist = HistSave(@, s.command)]

\* CaseReturn that does not save a command equal to the newest entry.
CaseReturn_Dedups(s) ==
    IF s.hist.entries # <<>> /\ s.hist.entries[Len(s.hist.entries)] = s.command
    THEN s
    ELSE [s EXCEPT !.hist = HistSave(@, s.command)]

\* case XK_Return: the history after m_hist.save(m_command)
CaseReturn(s) == [s EXCEPT !.hist = HistSave(@, s.command)]

\* BookmarkHit without m_hist.save(m_command).
BookmarkHit_NoSave(s, book) == [s EXCEPT !.command = book]

\* The Mod1Mask branch on a hit.
BookmarkHit(s, book) ==
    [s EXCEPT !.command = book, !.hist = HistSave(@, book)]

\* CaseEscape that asks for a redraw before it exits.
CaseEscape_Redraws(s) ==
    [s |-> s, ret |-> "exit", child |-> [st |-> "none", cmd |-> <<>>],
     effects |-> <<RedrawCall(s)>>, kind |-> "Escape"]

\* case XK_Escape: exit(0), the result of keypress for it.
CaseEscape(s) ==
    [s |-> s, ret |-> "exit", child |-> [st |-> "none", cmd |-> <<>>],
     effects |-> <<>>, kind |-> "Escape"]

\* argv[2] = m_command.c_str(): execv reads the argument as a C string, the
\* code units before the first 0 unit.
CStr(str) ==
    LET Z == {i \in 1..Len(str) : str[i] = 0}
    IN  IF Z = {} THEN str
        ELSE SubSeq(str, 1, (CHOOSE i \in Z : \A k \in Z : i <= k) - 1)

\* Thingylaunch::execcmd.  fk is what fork and execv do: "forkfail" (fork
\* returns -1, the parent returns, there is no child), "exec" (the child
\* becomes the shell running the command), "execfail" (execv returns in the
\* child).
execcmd(cmd, fk) ==
    [st  |-> CASE fk = "forkfail" -> "none"
               [] fk = "exec"     -> "shell"
               [] OTHER           -> "execfailed",
     cmd |-> IF fk = "forkfail" THEN <<>> ELSE CStr(cmd)]

ForkOutcomes == {"forkfail", "exec", "execfail"}

\* Control-w with m_cursorPos = 0: i = m_cursorPos - 1 wraps to SIZE_MAX, the
\* loop reads m_command out of range (undefined behaviour) until it faults or
\* finds a space, and erase(i, 0) with i > size() throws std::out_of_range,
\* which nothing catches.  Either way the process dies in keypress.
UBOutcomes == {"SIGSEGV", "SIGABRT"}

\* The switch, for the keys that neither terminate nor exit:
\* [s, c, kind] with c the value of charPressed after the switch.
SwitchCase(s, charPressed, state) ==
    CASE charPressed = XK_BackSpace ->
            [s |-> CaseBackSpace(s), c |-> charPressed, kind |-> "BackSpace"]
      [] charPressed \in {XK_Left, XK_KP_Left} ->
            [s |-> CaseLeft(s), c |-> charPressed, kind |-> "Left"]
      [] charPressed \in {XK_Right, XK_KP_Right} ->
            [s |-> CaseRight(s), c |-> charPressed, kind |-> "Right"]
      [] charPressed \in {XK_Up, XK_KP_Up} ->
            [s |-> CaseUp(s), c |-> charPressed, kind |-> "Up"]
      [] charPressed \in {XK_Down, XK_KP_Down} ->
            [s |-> CaseDown(s), c |-> charPressed, kind |-> "Down"]
      [] charPressed \in {XK_Home, XK_KP_Home} ->
            [s |-> CaseHome(s), c |-> charPressed, kind |-> "Home"]
      [] charPressed \in {XK_End, XK_KP_End} ->
            [s |-> CaseEnd(s), c |-> charPressed, kind |-> "End"]
      [] charPressed \in {XK_Tab, XK_KP_Tab} ->
            [s |-> CaseTab(s), c |-> charPressed, kind |-> "Tab"]
      [] charPressed = XK_k /\ ControlMask \in state ->
            [s |-> CaseCtrlK(s), c |-> 0, kind |-> "CtrlK"]
      [] charPressed = XK_w /\ ControlMask \in state ->
            [s |-> CaseCtrlW(s), c |-> 0, kind |-> "CtrlW"]
      [] OTHER ->
            [s |-> s, c |-> charPressed,
             kind |-> IF IsPrintable(charPressed) THEN "Printable" ELSE "Unmapped"]

\* The end of keypress asking for a redraw only when text or cursor changed.
RedrawAfter_OnlyOnChange(s, t) ==
    IF t.command = s.command /\ t.cursorPos = s.cursorPos
    THEN <<>> ELSE <<RedrawCall(t)>>

\* The end of keypress, redraw(); return false: the calls made, from the
\* object state s before the event and t after it.
RedrawAfter(s, t) == <<RedrawCall(t)>>

\* The bookmark test without !book.empty().
IsBookmarkHit_NoEmptyTest(state, book) == Mod1Mask \in state

\* if (keyevent->state & Mod1Mask) { book = m_book.lookup(charPressed);
\* if (!book.empty()) ...
IsBookmarkHit(state, book) == Mod1Mask \in state /\ book # <<>>

\* Thingylaunch::keypress on the event ev from the object state s:
\* [s, ret, child, effects, kind].  ret is "continue" (return false),
\* "terminate" (return true), "exit" (exit(0)) or a signal name.
keypress(s, ev, fk, ub) ==
    LET charPressed == IF ShiftMask \in ev.state THEN toupper(ev.sym) ELSE ev.sym
        book == IF Mod1Mask \in ev.state THEN BookLookup(charPressed) ELSE <<>>
        none == [st |-> "none", cmd |-> <<>>]
    IN  IF IsBookmarkHit(ev.state, book)
        THEN LET t == BookmarkHit(s, book)
             IN  [s |-> t, ret |-> "terminate", child |-> execcmd(t.command, fk),
                  effects |-> <<SaveCall(t.command), ExecCall(t.command)>>,
                  kind |-> "Bookmark"]
        ELSE IF charPressed = XK_Escape
        THEN CaseEscape(s)
        ELSE IF charPressed = XK_Return
        THEN LET t == CaseReturn(s)
             IN  [s |-> t, ret |-> "terminate", child |-> execcmd(t.command, fk),
                  effects |-> <<SaveCall(s.command), ExecCall(t.command)>>,
                  kind |-> "Return"]
        ELSE IF charPressed = XK_w /\ ControlMask \in ev.state /\ s.cursorPos = 0
        THEN [s |-> s, ret |-> ub, child |-> none, effects |-> <<>>,
              kind |-> "CtrlW"]
        ELSE LET w == SwitchCase(s, charPressed, ev.state)
                 t == IF IsPrintable(w.c) THEN PrintableBranch(w.s, w.c) ELSE w.s
             IN  [s |-> t, ret |-> "continue", child |-> none,
                  effects |-> RedrawAfter(s, t), kind |-> w.kind]

(* ------------------------------ behaviour ----------------------------- *)

\* No key event yet.
NoEvent == [sym |-> 0, state |-> {}]

\* The number of calls named what in a sequence of calls.
Calls(log, what) == Cardinality({i \in 1..Len(log) : log[i][1] = what})

\* eventLoop that goes on taking events after keypress returned true.
Running_Always == TRUE

\* eventLoop is still in its while loop: keypress has not returned true, and
\* the process has neither exited nor died.
Running == status = "EDITING"

Init ==
    /\ m_command = <<>>
    /\ m_cursorPos = 0
    /\ m_comp = CompReset
    /\ \E h \in InitHistories : m_hist = HistNew(h)
    /\ status = "EDITING"
    /\ child = [st |-> "none", cmd |-> <<>>]
    /\ effects = <<RedrawCall([command |-> <<>>, cursorPos |-> 0])>>
    /\ lastKey = "none"
    /\ tabCount = 0
    /\ tabBase = <<>>
    /\ typedRun = 0
    /\ afterUpTyped = FALSE
    /\ lastEv = NoEvent
    /\ nSave = 0
    /\ nExec = 0

\* eventLoop, case XCB_KEY_PRESS: one call of keypress.
KeyPress(ev, fk, ub) ==
    /\ Running
    /\ LET r == keypress(Cur, ev, fk, ub)
       IN  /\ r.kind = "Printable" => Len(m_command) < MaxLen
           /\ r.kind = "Tab" => tabCount < MaxTabs
           /\ m_command' = r.s.command
           /\ m_cursorPos' = r.s.cursorPos
           /\ m_comp' = r.s.comp
           /\ m_hist' = r.s.hist
           /\ status' = CASE r.ret = "continue"  -> "EDITING"
                          [] r.ret = "terminate" -> "TERMINATED"
                          [] r.ret = "exit"      -> "EXITED"
                          [] OTHER               -> r.ret
           /\ child' = r.child
           /\ effects' = r.effects
           /\ lastKey' = r.kind
           /\ tabCount' = IF r.kind # "Tab" THEN 0
                          ELSE IF tabCount > 0 THEN tabCount + 1
                          ELSE IF ~m_comp.live THEN 1 ELSE 0
           /\ tabBase' = IF r.kind # "Tab" THEN <<>>
                         ELSE IF tabCount > 0 THEN tabBase
                         ELSE IF ~m_comp.live THEN m_command ELSE <<>>
           /\ typedRun' = IF typedRun >= 0 /\ r.kind = "Printable"
                          THEN typedRun + 1 ELSE -1
           /\ afterUpTyped' = (r.kind = "Printable" /\ lastKey = "Up")
           /\ lastEv' = ev
           /\ nSave' = nSave + Calls(r.effects, "save")
           /\ nExec' = nExec + Calls(r.effects, "execcmd")

\* eventLoop, case XCB_EXPOSE: redraw().
Expose ==
    /\ Running
    /\ effects' = <<RedrawCall(Cur)>>
    /\ UNCHANGED <<m_command, m_cursorPos, m_comp, m_hist, status, child,
                   lastKey, tabCount, tabBase, typedRun, afterUpTyped, lastEv,
                   nSave, nExec>>

\* The child after execv has failed: execcmd returns in the child, keypress
\* returns true, eventLoop, run and main return, and ~Thingylaunch runs in the
\* child on the X connection, font, graphics contexts and window it shares
\* with the parent.
ChildUnwind ==
    /\ child.st = "execfailed"
    /\ child' = [child EXCEPT !.st = "destructed"]
    /\ UNCHANGED <<m_command, m_cursorPos, m_comp, m_hist, status, effects,
                   lastKey, tabCount, tabBase, typedRun, afterUpTyped, lastEv,
                   nSave, nExec>>

EventsOf(syms, state) == {ev \in Events : ev.sym \in syms /\ ev.state = state}

PressPrintable == \E ev \in EventsOf({XK_space, InputSyms.a, XK_k}, {}) :
                      KeyPress(ev, "exec", "SIGABRT")
PressKeypad    == \E ev \in EventsOf({InputSyms.KP_1}, {}) : KeyPress(ev, "exec", "SIGABRT")
PressBackSpace == \E ev \in EventsOf({XK_BackSpace}, {}) : KeyPress(ev, "exec", "SIGABRT")
PressLeft      == \E ev \in EventsOf({XK_Left, XK_KP_Left}, {}) : KeyPress(ev, "exec", "SIGABRT")
PressRight     == \E ev \in EventsOf({XK_Right}, {}) : KeyPress(ev, "exec", "SIGABRT")
PressUp        == \E ev \in EventsOf({XK_Up}, {}) : KeyPress(ev, "exec", "SIGABRT")
PressDown      == \E ev \in EventsOf({XK_Down}, {}) : KeyPress(ev, "exec", "SIGABRT")
PressHome      == \E ev \in EventsOf({XK_Home}, {}) : KeyPress(ev, "exec", "SIGABRT")
PressEnd       == \E ev \in EventsOf({XK_End}, {}) : KeyPress(ev, "exec", "SIGABRT")
PressTab       == \E ev \in EventsOf({XK_Tab}, {}) : KeyPress(ev, "exec", "SIGABRT")
PressEscape    == \E ev \in EventsOf({XK_Escape}, {}) : KeyPress(ev, "exec", "SIGABRT")
PressUnmapped  == \E ev \in EventsOf({InputSyms.F1}, {}) : KeyPress(ev, "exec", "SIGABRT")
PressCtrlK     == \E ev \in EventsOf({XK_k}, {ControlMask}) : KeyPress(ev, "exec", "SIGABRT")
PressCtrlW     == \E ev \in EventsOf({XK_w}, {ControlMask}), ub \in UBOutcomes :
                      KeyPress(ev, "exec", ub)
PressReturn    == \E ev \in EventsOf({XK_Return}, {}), fk \in ForkOutcomes :
                      KeyPress(ev, fk, "SIGABRT")
PressAltHit    == \E ev \in EventsOf({InputSyms.b}, {Mod1Mask}), fk \in ForkOutcomes :
                      KeyPress(ev, fk, "SIGABRT")
PressAltMiss   == \E ev \in EventsOf({InputSyms.a}, {Mod1Mask}) : KeyPress(ev, "exec", "SIGABRT")

Next ==
    \/ Expose
    \/ ChildUnwind
    \/ PressPrintable
    \/ PressKeypad
    \/ PressBackSpace
    \/ PressLeft
    \/ PressRight
    \/ PressUp
    \/ PressDown
    \/ PressHome
    \/ PressEnd
    \/ PressTab
    \/ PressEscape
    \/ PressUnmapped
    \/ PressCtrlK
    \/ PressCtrlW
    \/ PressReturn
    \/ PressAltHit
    \/ PressAltMiss

Spec == Init /\ [][Next]_vars

(* ------------------------------- claims ------------------------------- *)

\* The branches of keypress that return to the event loop.
EditingKeys == {"Printable", "BackSpace", "Left", "Right", "Up", "Down", "Home",
                "End", "Tab", "CtrlK", "CtrlW", "Unmapped"}

\* C1: after every key event that keypress handles (printable, Backspace,
\* Left/Right, Home/End, Up/Down, Tab, Ctrl-K, Ctrl-W, unmapped), starting
\* from the empty buffer with cursor 0, 0 <= cursor <= length(text).
C1_CursorInRange ==
    lastKey \in EditingKeys \cup {"none"} =>
        (0 <= m_cursorPos /\ m_cursorPos <= Len(m_command))

\* Cursor-right at the end of a full buffer: the clamp of the claim acted.
C1_Witness ==
    /\ lastKey = "Right"
    /\ status = "EDITING"
    /\ Len(m_command) = MaxLen
    /\ m_cursorPos = Len(m_command)

\* The text with the one character at index pos removed.
RemoveAt(str, pos) == SubSeq(str, 1, pos) \o SubSeq(str, pos + 2, Len(str))

\* C2: Backspace with cursor c > 0, wherever the cursor is, removes exactly
\* the character at index c-1, keeps every other character in place and in
\* order, and sets the cursor to c-1.
C2_BackspaceRemovesOne ==
    [][(status = "EDITING" /\ lastKey' = "BackSpace" /\ m_cursorPos > 0) =>
          /\ m_command' = RemoveAt(m_command, m_cursorPos - 1)
          /\ m_cursorPos' = m_cursorPos - 1]_vars

\* C3: every key event that returns to the event loop and is not Tab leaves
\* the completion engine reset, so that the next Tab scans afresh.
C3_NonTabKeysReset ==
    (status = "EDITING" /\ lastKey \in EditingKeys \ {"Tab"}) => m_comp = CompReset

\* C4: consecutive Tab presses with no other key in between, the first of
\* which scans for the buffer P, cycle through the candidates found for P:
\* the k-th Tab sets the buffer to candidate (k-1) mod n with the cursor at
\* the end, the engine keeps its list (Tab never resets it), and with no
\* candidate the buffer stays P.
C4_TabCycles ==
    tabCount >= 1 =>
        LET c == ScanPath(tabBase)
            n == Len(c)
        IN  /\ n = 0 => m_command = tabBase
            /\ n >= 1 => m_command = c[((tabCount - 1) % n) + 1]
            /\ m_cursorPos = Len(m_command)
            /\ m_comp.live
            /\ m_comp.candidates = c

\* A run of Tab presses longer than its candidate list: the cycle wrapped.
C4_Witness ==
    /\ lastKey = "Tab"
    /\ Len(ScanPath(tabBase)) >= 2
    /\ tabCount = Len(ScanPath(tabBase)) + 1
    /\ m_command = ScanPath(tabBase)[1]

\* C5: History-up sets the buffer to the next older entry and stays on the
\* oldest one; History-down sets it to the next newer entry and to the empty
\* string once past the newest; on an empty store both give the empty
\* string; after each of them cursor = length(text).
C5_HistoryFloorCeiling ==
    [][LET e == m_hist.entries
           n == Len(e)
           i == m_hist.nav
       IN  /\ (status = "EDITING" /\ lastKey' = "Up") =>
                 /\ n = 0 => m_command' = <<>>
                 /\ (n > 0 /\ i > 1) => m_command' = e[i - 1]
                 /\ (n > 0 /\ i = 1) => m_command' = e[1]
                 /\ m_cursorPos' = Len(m_command')
                 /\ m_hist'.entries = e
           /\ (status = "EDITING" /\ lastKey' = "Down") =>
                 /\ i < n => m_command' = e[i + 1]
                 /\ i >= n => m_command' = <<>>
                 /\ m_cursorPos' = Len(m_command')
                 /\ m_hist'.entries = e]_vars

\* History-up has reached the oldest of several entries.
C5_Witness ==
    /\ lastKey = "Up"
    /\ Len(m_hist.entries) >= 2
    /\ m_hist.nav = 1
    /\ m_command = m_hist.entries[1]
    /\ m_cursorPos = Len(m_command)

\* C6: a printable character typed after History-up presses puts the history
\* navigation back at-end: the next History-up yields the newest entry.
C6_TypingEndsBrowsing ==
    [][(status = "EDITING" /\ afterUpTyped /\ lastKey' = "Up"
            /\ m_hist.entries # <<>>) =>
          m_command' = m_hist.entries[Len(m_hist.entries)]]_vars

\* The indices b (1-based: the number of characters up to and including the
\* space) of the spaces of str among its first upto characters.
SpacesUpTo(str, upto) == {b \in 1..upto : str[b] = 32}

Max(S) == CHOOSE x \in S : \A y \in S : y <= x

\* What Ctrl-W at the end of the buffer leaves when the space it stops at is
\* the last one of S: the text up to and including it, or nothing when there
\* is none or it is at index 0.
KeptUpTo(str, S) ==
    IF S # {} /\ Max(S) > 1 THEN SubSeq(str, 1, Max(S)) ELSE <<>>

\* C7 as stated: Ctrl-W at the end of a non-empty buffer keeps the text up to
\* and including the nearest space before the cursor, the character next to
\* the cursor included, and empties the buffer when there is no such space
\* or it is at index 0.
C7_AnySpaceBeforeCursor ==
    [][(status = "EDITING" /\ lastKey' = "CtrlW" /\ Len(m_command) > 0
            /\ m_cursorPos = Len(m_command)) =>
          /\ m_command' = KeptUpTo(m_command, SpacesUpTo(m_command, m_cursorPos))
          /\ m_cursorPos' = Len(m_command')]_vars

\* C7 amended: the scan starts one character further left, so the character
\* right before the cursor is never taken as the boundary: Ctrl-W at the end
\* of a non-empty buffer keeps the text up to and including the nearest space
\* at an index <= cursor-2 and puts the cursor at the new end; with no such
\* space, or with it at index 0, the buffer becomes empty with cursor 0.
C7_EraseWordAtEnd ==
    [][(status = "EDITING" /\ lastKey' = "CtrlW" /\ Len(m_command) > 0
            /\ m_cursorPos = Len(m_command)) =>
          /\ m_command' = KeptUpTo(m_command, SpacesUpTo(m_command, m_cursorPos - 1))
          /\ m_cursorPos' = Len(m_command')
          /\ status' = "EDITING"]_vars

\* "k ak" has become "k " with the cursor at 2.
C7_Witness ==
    /\ lastKey = "CtrlW"
    /\ status = "EDITING"
    /\ m_command = <<107, 32>>
    /\ m_cursorPos = 2

\* C8: Return on any buffer, the empty one included, appends the buffer text
\* to the history, then calls the launcher with the same text, then returns
\* terminate; neither step is skipped.
C8_SubmitSavesThenLaunches ==
    [][(status = "EDITING" /\ lastKey' = "Return") =>
          /\ m_hist'.entries = Append(m_hist.entries, m_command)
          /\ effects' = <<SaveCall(m_command), ExecCall(m_command)>>
          /\ m_command' = m_command
          /\ status' = "TERMINATED"]_vars

\* The empty buffer has been submitted.
C8_Witness ==
    /\ lastKey = "Return"
    /\ status = "TERMINATED"
    /\ m_command = <<>>
    /\ m_hist.entries # <<>>
    /\ m_hist.entries[Len(m_hist.entries)] = <<>>
    /\ effects = <<SaveCall(<<>>), ExecCall(<<>>)>>

\* C9: a bookmark hit for command C ends like Return pressed on a buffer
\* holding the typed C: C is the buffer, the history has exactly C appended,
\* the launcher is called with C after the save, and keypress returns
\* terminate, whatever buffer and cursor there were before.
C9_BookmarkLikeTypedSubmit ==
    [][(status = "EDITING" /\ lastKey' = "Bookmark") =>
          LET C == BookLookup(InputSyms.b)
              typed == [Cur EXCEPT !.command = C, !.cursorPos = Len(C),
                                   !.comp = CompReset]
              sub == keypress(typed, [sym |-> XK_Return, state |-> {}],
                              "exec", "SIGABRT")
          IN  /\ m_command' = C
              /\ m_command' = sub.s.command
              /\ m_hist' = sub.s.hist
              /\ m_hist'.entries = Append(m_hist.entries, C)
              /\ effects' = sub.effects
              /\ effects' = <<SaveCall(C), ExecCall(C)>>
              /\ sub.ret = "terminate"
              /\ status' = "TERMINATED"]_vars

\* A bookmark hit on a buffer that was longer than the bookmarked command.
C9_Witness ==
    /\ lastKey = "Bookmark"
    /\ status = "TERMINATED"
    /\ m_command = BookLookup(InputSyms.b)
    /\ m_cursorPos > Len(m_command)

\* C10: from the empty buffer, after n printable key events and no other
\* key, length(text) = n and cursor = n.
C10_TypedLength ==
    typedRun >= 0 => (Len(m_command) = typedRun /\ m_cursorPos = typedRun)

\* The buffer has been filled by printable keys alone.
C10_Witness ==
    /\ typedRun = MaxLen
    /\ lastKey = "Printable"

\* C11: Ctrl-W with the cursor at 0, the empty buffer included, changes
\* neither text nor cursor, raises no error and leaves the engine editing.
C11_EraseWordAtZeroIsNoOp ==
    [][(status = "EDITING" /\ lastKey' = "CtrlW" /\ m_cursorPos = 0) =>
          /\ m_command' = m_command
          /\ m_cursorPos' = 0
          /\ status' = "EDITING"]_vars

\* C12: Backspace at cursor 0, cursor-left at cursor 0 and cursor-right at
\* cursor = length(text) leave text and cursor as they are and raise no error,
\* for every buffer, the empty one included.
C12_BoundaryKeysAreNoOps ==
    [][(/\ status = "EDITING"
        /\ \/ lastKey' \in {"BackSpace", "Left"} /\ m_cursorPos = 0
           \/ lastKey' = "Right" /\ m_cursorPos = Len(m_command)) =>
          /\ m_command' = m_command
          /\ m_cursorPos' = m_cursorPos
          /\ status' = "EDITING"]_vars

\* Backspace has been pressed with the cursor at the start of a non-empty
\* buffer (Backspace from any other cursor leaves nothing at or after the
\* cursor).
C12_Witness ==
    /\ lastKey = "BackSpace"
    /\ status = "EDITING"
    /\ m_cursorPos = 0
    /\ m_command # <<>>

\* C13: Escape from any editing state ends the process at once: nothing is
\* appended to the history, the launcher is not called, no redraw is asked
\* for.
C13_CancelDoesNothingElse ==
    [][(status = "EDITING" /\ lastKey' = "Escape") =>
          /\ status' = "EXITED"
          /\ m_hist' = m_hist
          /\ effects' = <<>>
          /\ nSave' = nSave /\ nExec' = nExec
          /\ child' = child /\ child.st = "none"
          /\ m_command' = m_command /\ m_cursorPos' = m_cursorPos]_vars

\* Escape has been pressed on a non-empty buffer.
C13_Witness ==
    /\ lastKey = "Escape"
    /\ status = "EXITED"
    /\ m_command # <<>>
    /\ effects = <<>>

\* The key symbols that have no bookmark.
UnbookmarkedSyms ==
    {XK_space, XK_k, XK_w, XK_BackSpace, XK_Tab, XK_Return, XK_Escape, XK_Home,
     XK_Left, XK_Up, XK_Right, XK_Down, XK_End, XK_KP_Tab, XK_KP_Home,
     XK_KP_Left, XK_KP_Up, XK_KP_Right, XK_KP_Down, XK_KP_End,
     InputSyms.a, InputSyms.F1}

\* C14: a key event with Alt held whose symbol has no bookmark does what the
\* same event without Alt does: same buffer, cursor, completion engine,
\* history, calls and continue/terminate result; the miss saves and launches
\* nothing of its own.
C14_AltMissLikePlain ==
    status = "EDITING" =>
        \A sym \in UnbookmarkedSyms, mods \in SUBSET {ControlMask},
           o \in {<<"exec", "SIGABRT">>, <<"forkfail", "SIGSEGV">>,
                  <<"execfail", "SIGABRT">>} :
            keypress(Cur, [sym |-> sym, state |-> mods \cup {Mod1Mask}], o[1], o[2])
                = keypress(Cur, [sym |-> sym, state |-> mods], o[1], o[2])

\* Alt+a, which has no bookmark, has inserted 'a' in the middle of the text.
C14_Witness ==
    /\ lastEv = [sym |-> InputSyms.a, state |-> {Mod1Mask}]
    /\ lastKey = "Printable"
    /\ status = "EDITING"
    /\ m_cursorPos >= 1
    /\ m_cursorPos < Len(m_command)
    /\ m_command[m_cursorPos] = 97
    /\ nSave = 0 /\ nExec = 0

\* C15: once keypress has returned terminate (Return or a bookmark hit) or
\* Escape has been taken, no later key event is processed: the buffer, the
\* cursor and the history stay as they are, and a session makes at most one
\* history save and at most one launch.
C15_NothingAfterTermination ==
    [][/\ status # "EDITING" =>
            /\ status' = status
            /\ m_command' = m_command
            /\ m_cursorPos' = m_cursorPos
            /\ m_hist' = m_hist
            /\ lastEv' = lastEv
            /\ nSave' = nSave
            /\ nExec' = nExec
       /\ nSave' <= 1
       /\ nExec' <= 1]_vars

\* The session has ended with its one save and its one launch.
C15_Witness ==
    /\ status = "TERMINATED"
    /\ lastKey = "Return"
    /\ nSave = 1
    /\ nExec = 1
    /\ Len(m_hist.entries) = 3

\* The word boundary of Ctrl-W for the cursor c: the index after the nearest
\* space at an index <= c-2, or 0 when there is none or it is at index 0.
WordBoundary(str, c) ==
    LET S == SpacesUpTo(str, c - 1)
    IN  IF S # {} /\ Max(S) > 1 THEN Max(S) ELSE 0

\* C16: Ctrl-W with the cursor c >= 1 strictly inside the buffer deletes only
\* the span [b, c) between the word boundary b and the cursor: the characters
\* before b and those at or after c stay, in order, and the cursor ends at b.
C16_EraseWordInside ==
    [][(status = "EDITING" /\ lastKey' = "CtrlW" /\ m_cursorPos >= 1
            /\ m_cursorPos < Len(m_command)) =>
          LET b == WordBoundary(m_command, m_cursorPos)
          IN  /\ m_command' = SubSeq(m_command, 1, b)
                                \o SubSeq(m_command, m_cursorPos + 1, Len(m_command))
              /\ m_cursorPos' = b]_vars

\* C17: every key event after which the engine is still editing, one that
\* changed nothing included, has asked for exactly one redraw, with the text
\* and cursor as they are after it; an event that returned terminate or
\* cancelled has asked for none.
C17_OneRedrawPerContinuingKey ==
    /\ status = "EDITING" => effects = << <<"redraw", m_command, m_cursorPos>> >>
    /\ status \in {"TERMINATED", "EXITED"} => Calls(effects, "redraw") = 0

\* An unmapped key on a non-empty buffer: nothing changed, one redraw.
C17_Witness ==
    /\ lastKey = "Unmapped"
    /\ status = "EDITING"
    /\ m_command # <<>>
    /\ effects = << <<"redraw", m_command, m_cursorPos>> >>

\* C18: Control+k from any buffer and cursor leaves the text empty and the
\* cursor at 0, resets the completion engine and inserts no 'k'; k without
\* Control is inserted at the cursor like any printable character.
C18_ClearLine ==
    [][/\ (status = "EDITING" /\ lastEv' = [sym |-> XK_k, state |-> {ControlMask}]) =>
            /\ m_command' = <<>>
            /\ m_cursorPos' = 0
            /\ m_comp' = CompReset
            /\ status' = "EDITING"
       /\ (status = "EDITING" /\ lastEv' = [sym |-> XK_k, state |-> {}]) =>
            /\ m_command' = Insert(m_command, m_cursorPos, 107)
            /\ m_cursorPos' = m_cursorPos + 1
            /\ status' = "EDITING"]_vars

\* Control+k has emptied a buffer that history navigation had filled.
C18_Witness ==
    /\ lastEv = [sym |-> XK_k, state |-> {ControlMask}]
    /\ lastKey = "CtrlK"
    /\ m_command = <<>>
    /\ m_cursorPos = 0
    /\ m_hist.nav <= Len(m_hist.entries)

\* C19: on Return or a bookmark hit the parent returns terminate whatever
\* becomes of the child (fork failure and execv failure included), and a
\* child whose execv fails does nothing more to the state and resources it
\* shares with the parent.
C19_ChildFailureStaysInChild ==
    /\ lastKey \in {"Return", "Bookmark"} => status = "TERMINATED"
    /\ child.st # "destructed"

\* C20: the history entries change only on submission: every key event other
\* than Return and a bookmark hit leaves them as they are, and Return or a
\* bookmark hit appends exactly one entry, the submitted command, altering
\* and de-duplicating nothing.
C20_HistoryAppendOnly ==
    [][IF status = "EDITING" /\ lastKey' \in {"Return", "Bookmark"}
       THEN m_hist'.entries = Append(m_hist.entries, m_command')
       ELSE m_hist'.entries = m_hist.entries]_vars

\* The newest entry has been submitted again and stands twice.
C20_Witness ==
    /\ status = "TERMINATED"
    /\ lastKey = "Return"
    /\ Len(m_hist.entries) = 3
    /\ m_hist.entries[3] = m_hist.entries[2]
    /\ m_hist.entries[3] = m_command

\* Key symbols at and around the edges of the two accepted ranges, and
\* inside them: 0x1f, 0x20, 'a', 0xff, 0x100, 0x1a1, 0x13be, 0x13bf, 0xffaf,
\* 0xffb0, 0xffb1, 0xffb9, 0xffba.
ProbeSyms == {31, 32, 97, 255, 256, 417, 5054, 5055,
              65455, 65456, 65457, 65465, 65466}

\* C21: each accepted printable symbol s (0x20 <= s <= 0x13be or
\* 0xffb0 <= s <= 0xffb9, s being the symbol after the Shift conversion)
\* inserts exactly one code unit, s mod 256, at the cursor: a symbol up to
\* 0xff inserts itself, a keypad digit 0xffb0+d inserts 0xb0+d and not the
\* ASCII digit 0x30+d.
C21_InsertsLowByte ==
    status = "EDITING" =>
      \A sym \in ProbeSyms, state \in {{}, {ShiftMask}} :
        LET c == IF ShiftMask \in state /\ sym >= 97 /\ sym <= 122
                 THEN sym - 32 ELSE sym
            accepted == (c >= 32 /\ c <= 5054) \/ (c >= 65456 /\ c <= 65465)
            r == keypress(Cur, [sym |-> sym, state |-> state], "exec", "SIGABRT")
            unit == r.s.command[m_cursorPos + 1]
        IN  accepted =>
              /\ r.ret = "continue"
              /\ Len(r.s.command) = Len(m_command) + 1
              /\ r.s.cursorPos = m_cursorPos + 1
              /\ SubSeq(r.s.command, 1, m_cursorPos) = SubSeq(m_command, 1, m_cursorPos)
              /\ SubSeq(r.s.command, m_cursorPos + 2, Len(r.s.command))
                   = SubSeq(m_command, m_cursorPos + 1, Len(m_command))
              /\ unit = c % 256
              /\ unit \in 0..255
              /\ c <= 255 => unit = c
              /\ c >= 65456 => unit = 176 + (c - 65456) /\ unit # 48 + (c - 65456)

\* The keypad digit 1 has been typed inside a non-empty buffer and stands
\* before the cursor as the code unit 0xb1.
C21_Witness ==
    /\ status = "EDITING"
    /\ lastKey = "Printable"
    /\ lastEv = [sym |-> InputSyms.KP_1, state |-> {}]
    /\ m_cursorPos >= 2
    /\ m_cursorPos < Len(m_command)
    /\ m_command[m_cursorPos] = 177

====
